---- MODULE Spec2Model ----
(***************************************************************************)
(* The 3-coloring generator/supervisor pair of src/1b_3coloring: a circular *)
(* buffer in shared memory (cb_t), three named POSIX semaphores, N          *)
(* generator processes and one supervisor process, each modelled statement  *)
(* by statement as a program counter over its main().                       *)
(***************************************************************************)
EXTENDS Integers, Sequences, FiniteSets, TLC

\* ipc.h:12 sets NUMBER_OF_ENTRIES to 200 and ipc.h:13 sets
\* MAXIMUM_SOLUTION_LENGTH to 8; the model runs the same code on a buffer of
\* 2 slots holding up to 2 edges each.
NUMBER_OF_ENTRIES == 2
MAXIMUM_SOLUTION_LENGTH == 2
\* Number of generator processes.
NumGens == 2
\* Number of publish calls whose identity the history variables follow.
MaxTrack == 3
\* limits.h, used at supervisor.c:79
INT_MAX == 2147483647
\* Command lines of up to MaxArgs edge arguments of up to MaxTokLen
\* characters each, over the characters of Chars.
MaxArgs == 2
MaxTokLen == 4
Chars == {"0", "1", "-", "a"}

Sup == 0
Gens == 1..NumGens
Procs == {Sup} \cup Gens
Slots == 0..(NUMBER_OF_ENTRIES - 1)
Pairs == 0..(MAXIMUM_SOLUTION_LENGTH - 1)

SHM_NAME == "shm"
FREE_SEM_NAME == "free_sem"
USED_SEM_NAME == "used_sem"
WRITE_SEM_NAME == "write_sem"
SemNames == {FREE_SEM_NAME, USED_SEM_NAME, WRITE_SEM_NAME}

\* The edge lists the generators are started with, as parse_argv builds them.
\* K2 is "0-1"; Loops is "0-0 1-1" (every coloring has two conflicting
\* edges); Triangle is "0-1 1-2 2-0"; K4 is "0-1 0-2 0-3 1-2 1-3 2-3".
K2 == << <<0, 1>> >>
Loops == << <<0, 0>>, <<1, 1>> >>
Triangle == << <<0, 1>>, <<1, 2>>, <<2, 0>> >>
K4 == << <<0, 1>>, <<0, 2>>, <<0, 3>>, <<1, 2>>, <<1, 3>>, <<2, 3>> >>
Graphs == {K2, Loops}

VARIABLES
    edges,               \* the graph every generator was started with
    names,               \* names of the shared objects that are linked
    signal, rd, wr, entries,          \* cb_t in the shared region
    free_sem, used_sem, write_sem,    \* semaphore values
    quit,                \* each process's own quit flag
    spc, current_best, colorable,     \* supervisor
    gpc, removal_candidates, gi,      \* generators
    \* history variables (not read by any action's guard or program update)
    wheld, fheld,        \* generator holds write_sem / a free_sem permit
    inflight,            \* publishes completed minus slots given back
    unread,              \* slot holds a complete entry not yet given back
    ticket, nextTicket,  \* identity of a generator's current publish call
    lenBy, pairBy,       \* which publish call wrote each field of a slot
    confBy, rconf,       \* conflicting edges of the coloring behind it
    pubLog, conLog,      \* first MaxTrack publishes / consumes, in order
    announcedConf,       \* confBy of the slot colorability was announced on
    slotLog,             \* slot index read by each of the first consumes
    ghostBest,           \* first entry of least non-zero length consumed so far
    pubAfter,            \* publishes each generator completed with signal = 1
    preexisting,         \* names linked before the supervisor started
    created,             \* names the supervisor's own calls have created
    argv,                \* the edge arguments argv[1..argc-1], as characters
    vertices             \* the keys of the vertices array, in insertion order

shmVars == <<signal, rd, wr, entries>>
semVars == <<free_sem, used_sem, write_sem>>
supVars == <<spc, current_best, colorable>>
genVars == <<gpc, removal_candidates, gi>>
slotHist == <<lenBy, pairBy, confBy, unread>>
callHist == <<ticket, nextTicket, rconf>>
logHist == <<pubLog, conLog, announcedConf, slotLog, ghostBest, pubAfter,
            preexisting, created>>
heldHist == <<wheld, fheld, inflight>>
histVars == <<slotHist, callHist, logHist, heldHist>>
parseVars == <<argv, vertices>>
vars == <<edges, parseVars, names, shmVars, semVars, quit, supVars, genVars,
          histVars>>

(***************************************************************************)
(* Graph helpers (generator.c)                                             *)
(***************************************************************************)
Vertices(es) == UNION {{es[i][1], es[i][2]} : i \in 1..Len(es)}

\* randomize: every vertex gets a color rand() % 3
Colorings(es) == [Vertices(es) -> 0..2]

RECURSIVE src_loop(_, _, _, _)
src_loop(es, col, i, acc) ==
    IF i > Len(es) \/ Len(acc) >= MAXIMUM_SOLUTION_LENGTH
    THEN acc
    ELSE IF col[es[i][1]] = col[es[i][2]]
         THEN src_loop(es, col, i + 1, Append(acc, es[i]))
         ELSE src_loop(es, col, i + 1, acc)

\* faulty variant: the loop starts at the second edge
set_removal_candidates_skip_first(es, col) == src_loop(es, col, 2, <<>>)

\* faulty variant: the loop has no bound on the number of edges stored
set_removal_candidates_unbounded(es, col) ==
    SelectSeq(es, LAMBDA e : col[e[1]] = col[e[2]])

\* set_removal_candidates: the conflicting edges, in edge order, the loop
\* stopping as soon as MAXIMUM_SOLUTION_LENGTH of them are stored
set_removal_candidates(es, col) == src_loop(es, col, 1, <<>>)

\* the number of edges whose two endpoints share a color (history only)
NumConflicts(es, col) ==
    Cardinality({i \in 1..Len(es) : col[es[i][1]] = col[es[i][2]]})

(***************************************************************************)
(* Command line parsing (generator.c:209-280). An argument is a sequence   *)
(* of characters; a vertex is its key and a pointer to a vertex is its     *)
(* position in the vertices array, 0 standing for NULL.                    *)
(***************************************************************************)
Digits == <<"0", "1", "2", "3", "4", "5", "6", "7", "8", "9">>
IsDigit(c) == \E d \in 1..Len(Digits) : Digits[d] = c
DigitVal(c) == (CHOOSE d \in 1..Len(Digits) : Digits[d] = c) - 1

\* strtok(s, "-") called until it returns NULL: the maximal runs of
\* characters other than '-', in order; empty runs are skipped
RECURSIVE strtok_loop(_, _, _, _)
strtok_loop(s, i, cur, acc) ==
    IF i > Len(s)
    THEN IF cur = <<>> THEN acc ELSE Append(acc, cur)
    ELSE IF s[i] = "-"
         THEN strtok_loop(s, i + 1, <<>>,
                          IF cur = <<>> THEN acc ELSE Append(acc, cur))
         ELSE strtok_loop(s, i + 1, Append(cur, s[i]), acc)

strtok(s) == strtok_loop(s, 1, <<>>, <<>>)

\* strtol(s, &next, 10) on a string without white space or sign: the value
\* of the longest prefix of digits and the position after it
RECURSIVE strtol_loop(_, _, _)
strtol_loop(s, i, val) ==
    IF i <= Len(s) /\ IsDigit(s[i])
    THEN strtol_loop(s, i + 1, val * 10 + DigitVal(s[i]))
    ELSE [value |-> val, next |-> i]

strtol(s) == strtol_loop(s, 1, 0)

\* the cast (int) at generator.c:226-227 of a value that is not negative and
\* is below 2^32; an argument of MaxTokLen characters is far below INT_MAX
ToInt(v) == IF v <= INT_MAX THEN v ELSE v - INT_MAX - INT_MAX - 2

\* generator.c:273-280
find_vertex_by_key(vs, key) ==
    IF \E i \in 1..Len(vs) : vs[i] = key
    THEN CHOOSE i \in 1..Len(vs) :
             vs[i] = key /\ \A j \in 1..(i - 1) : vs[j] # key
    ELSE 0

\* faulty variant: an edge is found only in the orientation it was stored
find_edge_by_vertices_ordered(es, v1, v2) ==
    IF \E i \in 1..Len(es) : es[i] = <<v1, v2>>
    THEN CHOOSE i \in 1..Len(es) : es[i] = <<v1, v2>>
    ELSE 0

\* generator.c:264-271
find_edge_by_vertices(es, v1, v2) ==
    IF \E i \in 1..Len(es) : es[i] = <<v1, v2>> \/ es[i] = <<v2, v1>>
    THEN CHOOSE i \in 1..Len(es) : es[i] = <<v1, v2>> \/ es[i] = <<v2, v1>>
    ELSE 0

\* generator.c:256-262
add_new_vertex(vs, key) == Append(vs, key)

\* generator.c:250-254
add_new_edge(es, v1, v2) == Append(es, <<v1, v2>>)

ParseFailed == [failed |-> TRUE, vertices |-> <<>>, edges |-> <<>>]

\* generator.c:211-246 the body of the loop of parse_argv for one argument;
\* usage() exits the process (generator.c:100-106)
parse_arg(st, arg) ==
    LET p == strtok(arg)
        tokens == IF Len(p) = 0 THEN 1 ELSE Len(p)
    IN  IF tokens # 2 THEN ParseFailed
        ELSE
          LET r1 == strtol(p[1])
              r2 == strtol(p[2])
          IN  IF \/ r1.next = 1 \/ r1.next # Len(p[1]) + 1
                 \/ r2.next = 1 \/ r2.next # Len(p[2]) + 1
              THEN ParseFailed
              ELSE
                LET k1 == ToInt(r1.value)
                    k2 == ToInt(r2.value)
                    f1 == find_vertex_by_key(st.vertices, k1)
                    vs1 == IF f1 = 0 THEN add_new_vertex(st.vertices, k1)
                           ELSE st.vertices
                    v1 == IF f1 = 0 THEN Len(vs1) ELSE f1
                    f2 == find_vertex_by_key(vs1, k2)
                    vs2 == IF f2 = 0 THEN add_new_vertex(vs1, k2) ELSE vs1
                    v2 == IF f2 = 0 THEN Len(vs2) ELSE f2
                    e == find_edge_by_vertices(st.edges, v1, v2)
                IN  [failed |-> FALSE,
                     vertices |-> vs2,
                     edges |-> IF e = 0 THEN add_new_edge(st.edges, v1, v2)
                               ELSE st.edges]

\* generator.c:209-248
RECURSIVE parse_loop(_, _, _)
parse_loop(av, i, st) ==
    IF i > Len(av) \/ st.failed THEN st
    ELSE parse_loop(av, i + 1, parse_arg(st, av[i]))

parse_argv(av) ==
    parse_loop(av, 1, [failed |-> FALSE, vertices |-> <<>>, edges |-> <<>>])

\* the edges array with each pointer replaced by the key it points to
EdgeKeys(r) ==
    [k \in 1..Len(r.edges) |->
        <<r.vertices[r.edges[k][1]], r.vertices[r.edges[k][2]]>>]

\* the command line "a-b c-d ..." of an edge list
ArgvOf(es) ==
    [k \in 1..Len(es) |-> <<Digits[es[k][1] + 1], "-", Digits[es[k][2] + 1]>>]

ZeroEntry ==
    [length |-> 0,
     from_vertices |-> [i \in Pairs |-> 0],
     to_vertices |-> [i \in Pairs |-> 0]]

(***************************************************************************)
(* Init: the supervisor has created and mapped the zero-filled region and  *)
(* the three semaphores (supervisor.c:52-79) and stands at the top of its  *)
(* loop; no generator has attached yet.                                    *)
(***************************************************************************)
InitProgram ==
    /\ names = {SHM_NAME} \cup SemNames
    /\ preexisting = {}
    /\ created = {SHM_NAME} \cup SemNames
    /\ signal = 0 /\ rd = 0 /\ wr = 0
    /\ entries = [s \in Slots |-> ZeroEntry]
    /\ free_sem = NUMBER_OF_ENTRIES
    /\ used_sem = 0
    /\ write_sem = 1
    /\ quit = [p \in Procs |-> FALSE]
    /\ spc = "loop"
    /\ current_best = [ZeroEntry EXCEPT !.length = INT_MAX]
    /\ colorable = FALSE
    /\ gpc = [g \in Gens |-> "attach"]
    /\ removal_candidates = [g \in Gens |-> <<>>]
    /\ gi = [g \in Gens |-> 0]
    /\ argv = ArgvOf(edges)
    /\ vertices = parse_argv(argv).vertices

InitHist(track) ==
    /\ wheld = [g \in Gens |-> FALSE]
    /\ fheld = [g \in Gens |-> FALSE]
    /\ inflight = 0
    /\ unread = [s \in Slots |-> FALSE]
    /\ ticket = [g \in Gens |-> 0]
    /\ nextTicket = IF track THEN 1 ELSE MaxTrack + 1
    /\ lenBy = [s \in Slots |-> -1]
    /\ pairBy = [s \in Slots |-> [i \in Pairs |-> -1]]
    /\ confBy = [s \in Slots |-> -1]
    /\ rconf = [g \in Gens |-> -1]
    /\ pubLog = <<>>
    /\ conLog = <<>>
    /\ announcedConf = -1
    /\ slotLog = <<>>
    /\ ghostBest = [ZeroEntry EXCEPT !.length = INT_MAX]
    /\ pubAfter = [g \in Gens |-> 0]

Init ==
    /\ edges \in Graphs
    /\ InitProgram
    /\ InitHist(TRUE)

(***************************************************************************)
(* Generator: main() of generator.c, one action per statement.             *)
(* "failed" is exit(EXIT_FAILURE), "done" is return EXIT_SUCCESS.          *)
(***************************************************************************)
GoG(g, to) == gpc' = [gpc EXCEPT ![g] = to]

\* faulty variant: the generator goes on whenever the three semaphores are
\* there, with or without the region
g_attach_unchecked(g) ==
    /\ gpc[g] = "attach"
    /\ GoG(g, IF SemNames \subseteq names THEN "loop" ELSE "failed")
    /\ UNCHANGED <<edges, parseVars, names, shmVars, semVars, quit, supVars,
                   removal_candidates, gi, histVars>>

\* generator.c:131-151 shm_open(SHM_NAME, O_RDWR), mmap and three
\* sem_open(name, 0). Without the region the generator exits with failure;
\* on any SEM_FAILED it calls close_sem (sem_close and sem_unlink,
\* util.c:28-31) on all three names and exits with failure
g_attach(g) ==
    /\ gpc[g] = "attach"
    /\ IF SHM_NAME \notin names
       THEN GoG(g, "failed") /\ names' = names
       ELSE IF SemNames \subseteq names
            THEN GoG(g, "loop") /\ names' = names
            ELSE GoG(g, "failed") /\ names' = names \ SemNames
    /\ UNCHANGED <<edges, parseVars, shmVars, semVars, quit, supVars,
                   removal_candidates, gi, histVars>>

\* faulty variant: the loop test reads the quit flag only
g_loop_noflag(g) ==
    /\ gpc[g] = "loop"
    /\ GoG(g, IF ~quit[g] THEN "wait_write" ELSE "cleanup")
    /\ UNCHANGED <<edges, parseVars, names, shmVars, semVars, quit, supVars,
                   removal_candidates, gi, histVars>>

\* generator.c:154 while (!quit && cb->signal == 0)
g_loop(g) ==
    /\ gpc[g] = "loop"
    /\ GoG(g, IF ~quit[g] /\ signal = 0 THEN "wait_write" ELSE "cleanup")
    /\ UNCHANGED <<edges, parseVars, names, shmVars, semVars, quit, supVars,
                   removal_candidates, gi, histVars>>

\* faulty variant: the generator goes on without taking write_sem
g_wait_write_nolock(g) ==
    /\ gpc[g] = "wait_write"
    /\ wheld' = [wheld EXCEPT ![g] = TRUE]
    /\ GoG(g, "wait_free")
    /\ UNCHANGED <<edges, parseVars, names, shmVars, semVars, quit, supVars,
                   removal_candidates, gi, slotHist, callHist, logHist,
                   fheld, inflight>>

\* generator.c:155 sem_wait(write_sem): takes the semaphore, or sleeps in
\* the call ("blk_write") until it can
g_wait_write(g) ==
    /\ \/ gpc[g] = "wait_write"
       \/ gpc[g] = "blk_write" /\ write_sem > 0
    /\ IF write_sem > 0
       THEN /\ write_sem' = write_sem - 1
            /\ wheld' = [wheld EXCEPT ![g] = TRUE]
            /\ GoG(g, "wait_free")
       ELSE /\ GoG(g, "blk_write")
            /\ UNCHANGED <<write_sem, wheld>>
    /\ UNCHANGED <<edges, parseVars, names, shmVars, free_sem, used_sem, quit, supVars,
                   removal_candidates, gi, slotHist, callHist, logHist,
                   fheld, inflight>>

\* faulty variant: the generator goes on without taking a free_sem permit
g_wait_free_nopermit(g) ==
    /\ gpc[g] = "wait_free"
    /\ fheld' = [fheld EXCEPT ![g] = TRUE]
    /\ GoG(g, "randomize")
    /\ UNCHANGED <<edges, parseVars, names, shmVars, semVars, quit, supVars,
                   removal_candidates, gi, slotHist, callHist, logHist,
                   wheld, inflight>>

\* generator.c:165 sem_wait(free_sem)
g_wait_free(g) ==
    /\ \/ gpc[g] = "wait_free"
       \/ gpc[g] = "blk_free" /\ free_sem > 0
    /\ IF free_sem > 0
       THEN /\ free_sem' = free_sem - 1
            /\ fheld' = [fheld EXCEPT ![g] = TRUE]
            /\ GoG(g, "randomize")
       ELSE /\ GoG(g, "blk_free")
            /\ UNCHANGED <<free_sem, fheld>>
    /\ UNCHANGED <<edges, parseVars, names, shmVars, used_sem, write_sem, quit, supVars,
                   removal_candidates, gi, slotHist, callHist, logHist,
                   wheld, inflight>>

\* generator.c:175-180 randomize, set_removal_candidates and the length test
g_randomize(g) ==
    /\ gpc[g] = "randomize"
    /\ \E col \in Colorings(edges) :
         LET rc == set_removal_candidates(edges, col) IN
           /\ removal_candidates' = [removal_candidates EXCEPT ![g] = rc]
           /\ rconf' = [rconf EXCEPT ![g] = NumConflicts(edges, col)]
           /\ GoG(g, IF Len(rc) > MAXIMUM_SOLUTION_LENGTH
                     THEN "loop" ELSE "write_length")
    /\ UNCHANGED <<edges, parseVars, names, shmVars, semVars, quit, supVars, gi,
                   slotHist, ticket, nextTicket, logHist, heldHist>>

\* faulty variant: sem_post(used_sem) is done here, before the pairs are written
g_write_length_post_early(g) ==
    /\ gpc[g] = "write_length"
    /\ entries' = [entries EXCEPT ![wr].length = Len(removal_candidates[g])]
    /\ used_sem' = used_sem + 1
    /\ gi' = [gi EXCEPT ![g] = 0]
    /\ GoG(g, "write_pairs")
    /\ LET t == IF nextTicket <= MaxTrack THEN nextTicket ELSE 0 IN
         /\ ticket' = [ticket EXCEPT ![g] = t]
         /\ nextTicket' = IF nextTicket <= MaxTrack
                          THEN nextTicket + 1 ELSE nextTicket
         /\ lenBy' = [lenBy EXCEPT ![wr] = t]
    /\ confBy' = [confBy EXCEPT ![wr] = rconf[g]]
    /\ UNCHANGED <<edges, parseVars, names, signal, rd, wr, free_sem, write_sem, quit,
                   supVars, removal_candidates, pairBy, unread, rconf,
                   logHist, heldHist>>

\* faulty variant: the length written is the number of conflicting edges of
\* the coloring, not the number of edges stored
g_write_length_untruncated(g) ==
    /\ gpc[g] = "write_length"
    /\ entries' = [entries EXCEPT ![wr].length = rconf[g]]
    /\ gi' = [gi EXCEPT ![g] = 0]
    /\ GoG(g, "write_pairs")
    /\ LET t == IF nextTicket <= MaxTrack THEN nextTicket ELSE 0 IN
         /\ ticket' = [ticket EXCEPT ![g] = t]
         /\ nextTicket' = IF nextTicket <= MaxTrack
                          THEN nextTicket + 1 ELSE nextTicket
         /\ lenBy' = [lenBy EXCEPT ![wr] = t]
    /\ confBy' = [confBy EXCEPT ![wr] = rconf[g]]
    /\ UNCHANGED <<edges, parseVars, names, signal, rd, wr, semVars, quit, supVars,
                   removal_candidates, pairBy, unread, rconf, logHist,
                   heldHist>>

\* generator.c:182 cb->entries[cb->wr].length = removal_candidates_length
g_write_length(g) ==
    /\ gpc[g] = "write_length"
    /\ entries' = [entries EXCEPT ![wr].length = Len(removal_candidates[g])]
    /\ gi' = [gi EXCEPT ![g] = 0]
    /\ GoG(g, "write_pairs")
    /\ LET t == IF nextTicket <= MaxTrack THEN nextTicket ELSE 0 IN
         /\ ticket' = [ticket EXCEPT ![g] = t]
         /\ nextTicket' = IF nextTicket <= MaxTrack
                          THEN nextTicket + 1 ELSE nextTicket
         /\ lenBy' = [lenBy EXCEPT ![wr] = t]
    /\ confBy' = [confBy EXCEPT ![wr] = rconf[g]]
    /\ UNCHANGED <<edges, parseVars, names, signal, rd, wr, semVars, quit, supVars,
                   removal_candidates, pairBy, unread, rconf, logHist,
                   heldHist>>

\* generator.c:183-186 one pass of the for loop body
g_write_pairs(g) ==
    /\ gpc[g] = "write_pairs"
    /\ gi[g] < Len(removal_candidates[g])
    /\ entries' =
         [entries EXCEPT
            ![wr].from_vertices[gi[g]] = removal_candidates[g][gi[g] + 1][1],
            ![wr].to_vertices[gi[g]] = removal_candidates[g][gi[g] + 1][2]]
    /\ pairBy' = [pairBy EXCEPT ![wr][gi[g]] = ticket[g]]
    /\ gi' = [gi EXCEPT ![g] = gi[g] + 1]
    /\ UNCHANGED <<edges, parseVars, names, signal, rd, wr, semVars, quit, supVars,
                   gpc, removal_candidates, lenBy, confBy, unread, callHist,
                   logHist, heldHist>>

\* faulty variant: the generator moves the read index
g_advance_rd(g) ==
    /\ gpc[g] = "write_pairs"
    /\ gi[g] >= Len(removal_candidates[g])
    /\ rd' = (rd + 1) % NUMBER_OF_ENTRIES
    /\ unread' = [unread EXCEPT ![wr] = TRUE]
    /\ gi' = [gi EXCEPT ![g] = 0]
    /\ GoG(g, "post_used")
    /\ UNCHANGED <<edges, parseVars, names, signal, wr, entries, semVars, quit, supVars,
                   removal_candidates, lenBy, pairBy, confBy, callHist,
                   logHist, heldHist>>

\* faulty variant: the write index is incremented without the modulo
g_advance_nomod(g) ==
    /\ gpc[g] = "write_pairs"
    /\ gi[g] >= Len(removal_candidates[g])
    /\ wr' = wr + 1
    /\ unread' = [unread EXCEPT ![wr] = TRUE]
    /\ gi' = [gi EXCEPT ![g] = 0]
    /\ GoG(g, "post_used")
    /\ UNCHANGED <<edges, parseVars, names, signal, rd, entries, semVars, quit, supVars,
                   removal_candidates, lenBy, pairBy, confBy, callHist,
                   logHist, heldHist>>

\* generator.c:187 cb->wr = (cb->wr + 1) % NUMBER_OF_ENTRIES
g_advance(g) ==
    /\ gpc[g] = "write_pairs"
    /\ gi[g] >= Len(removal_candidates[g])
    /\ wr' = (wr + 1) % NUMBER_OF_ENTRIES
    /\ unread' = [unread EXCEPT ![wr] = TRUE]
    /\ gi' = [gi EXCEPT ![g] = 0]
    /\ GoG(g, "post_used")
    /\ UNCHANGED <<edges, parseVars, names, signal, rd, entries, semVars, quit, supVars,
                   removal_candidates, lenBy, pairBy, confBy, callHist,
                   logHist, heldHist>>

\* faulty variant: sem_post(used_sem) is left out
g_post_used_nopost(g) ==
    /\ gpc[g] = "post_used"
    /\ fheld' = [fheld EXCEPT ![g] = FALSE]
    /\ inflight' = inflight + 1
    /\ pubLog' = IF ticket[g] # 0 THEN Append(pubLog, ticket[g]) ELSE pubLog
    /\ pubAfter' = [pubAfter EXCEPT
                      ![g] = IF signal = 1 /\ @ < MaxTrack THEN @ + 1 ELSE @]
    /\ GoG(g, "post_write")
    /\ UNCHANGED <<edges, parseVars, names, shmVars, semVars, quit, supVars,
                   removal_candidates, gi, slotHist, callHist, conLog,
                   announcedConf, slotLog, ghostBest, preexisting, created,
                   wheld>>

\* generator.c:189-190 sem_post(used_sem): the publish is complete
g_post_used(g) ==
    /\ gpc[g] = "post_used"
    /\ used_sem' = used_sem + 1
    /\ fheld' = [fheld EXCEPT ![g] = FALSE]
    /\ inflight' = inflight + 1
    /\ pubLog' = IF ticket[g] # 0 THEN Append(pubLog, ticket[g]) ELSE pubLog
    /\ pubAfter' = [pubAfter EXCEPT
                      ![g] = IF signal = 1 /\ @ < MaxTrack THEN @ + 1 ELSE @]
    /\ GoG(g, "post_write")
    /\ UNCHANGED <<edges, parseVars, names, shmVars, free_sem, write_sem, quit, supVars,
                   removal_candidates, gi, slotHist, callHist, conLog,
                   announcedConf, slotLog, ghostBest, preexisting, created,
                   wheld>>

\* generator.c:191-192 sem_post(write_sem) and the end of the loop body
g_post_write(g) ==
    /\ gpc[g] = "post_write"
    /\ write_sem' = write_sem + 1
    /\ wheld' = [wheld EXCEPT ![g] = FALSE]
    /\ removal_candidates' = [removal_candidates EXCEPT ![g] = <<>>]
    /\ rconf' = [rconf EXCEPT ![g] = -1]
    /\ ticket' = [ticket EXCEPT ![g] = 0]
    /\ GoG(g, "loop")
    /\ UNCHANGED <<edges, parseVars, names, shmVars, free_sem, used_sem, quit, supVars,
                   gi, slotHist, nextTicket, logHist, fheld, inflight>>

\* generator.c:194-206 the message, munmap, close, close_sem on the three
\* semaphores (each one sem_close and sem_unlink, util.c:28-31) and
\* return EXIT_SUCCESS
g_cleanup(g) ==
    /\ gpc[g] = "cleanup"
    /\ names' = names \ SemNames
    /\ GoG(g, "done")
    /\ UNCHANGED <<edges, parseVars, shmVars, semVars, quit, supVars,
                   removal_candidates, gi, histVars>>

\* generator.c:90-93 handle_signal, on SIGINT or SIGTERM at any point of
\* the process's life; a sem_wait the process sleeps in returns -1 with
\* EINTR and the loop continues at its top (generator.c:156-158, 166-168)
g_handle_signal(g) ==
    /\ gpc[g] \notin {"done", "failed"}
    /\ quit' = [quit EXCEPT ![g] = TRUE]
    /\ GoG(g, IF gpc[g] \in {"blk_write", "blk_free"} THEN "loop" ELSE gpc[g])
    /\ UNCHANGED <<edges, parseVars, names, shmVars, semVars, supVars,
                   removal_candidates, gi, histVars>>

GenStep(g) ==
    \/ g_attach(g) \/ g_loop(g)
    \/ g_wait_write(g) \/ g_wait_free(g) \/ g_randomize(g)
    \/ g_write_length(g) \/ g_write_pairs(g) \/ g_advance(g)
    \/ g_post_used(g) \/ g_post_write(g) \/ g_cleanup(g)

(***************************************************************************)
(* Supervisor: the loop and the shutdown of main() of supervisor.c.        *)
(***************************************************************************)
GoS(to) == spc' = to

\* history: slot s is given back to the generators, its entry is consumed
GiveBack(s) ==
    /\ unread' = [unread EXCEPT ![s] = FALSE]
    /\ lenBy' = [lenBy EXCEPT ![s] = -1]
    /\ pairBy' = [pairBy EXCEPT ![s] = [i \in Pairs |-> -1]]
    /\ confBy' = [confBy EXCEPT ![s] = -1]

\* supervisor.c:80 while (!quit)
s_loop ==
    /\ spc = "loop"
    /\ GoS(IF ~quit[Sup] THEN "wait_used" ELSE "terminate")
    /\ UNCHANGED <<edges, parseVars, names, shmVars, semVars, quit, current_best,
                   colorable, genVars, histVars>>

\* supervisor.c:81 sem_wait(used_sem)
s_wait_used ==
    /\ \/ spc = "wait_used"
       \/ spc = "blk_used" /\ used_sem > 0
    /\ IF used_sem > 0
       THEN used_sem' = used_sem - 1 /\ GoS("check_zero")
       ELSE used_sem' = used_sem /\ GoS("blk_used")
    /\ UNCHANGED <<edges, parseVars, names, shmVars, free_sem, write_sem, quit,
                   current_best, colorable, genVars, histVars>>

\* supervisor.c:91-92 if (cb->entries[cb->rd % NUMBER_OF_ENTRIES].length == 0)
\* and the announcement
s_check_zero ==
    /\ spc = "check_zero"
    /\ LET s == rd % NUMBER_OF_ENTRIES IN
         /\ IF entries[s].length = 0
            THEN /\ colorable' = TRUE
                 /\ announcedConf' = confBy[s]
                 /\ GoS("post_free_break")
            ELSE /\ GoS("check_best")
                 /\ UNCHANGED <<colorable, announcedConf>>
         /\ IF Len(conLog) < MaxTrack
            THEN /\ conLog' = Append(conLog, lenBy[s])
                 /\ slotLog' = Append(slotLog, s)
            ELSE UNCHANGED <<conLog, slotLog>>
         /\ ghostBest' = IF /\ entries[s].length # 0
                            /\ entries[s].length < ghostBest.length
                         THEN entries[s] ELSE ghostBest
    /\ UNCHANGED <<edges, parseVars, names, shmVars, semVars, quit, current_best,
                   genVars, slotHist, callHist, pubLog, pubAfter,
                   preexisting, created, heldHist>>

\* faulty variant: every entry of non-zero length is taken as the new best
s_check_best_always_copy ==
    /\ spc = "check_best"
    /\ GoS("copy")
    /\ UNCHANGED <<edges, parseVars, names, shmVars, semVars, quit, current_best,
                   colorable, genVars, histVars>>

\* faulty variant: the test is > instead of >=
s_check_best_strict ==
    /\ spc = "check_best"
    /\ GoS(IF entries[rd].length > current_best.length
           THEN "advance" ELSE "copy")
    /\ UNCHANGED <<edges, parseVars, names, shmVars, semVars, quit, current_best,
                   colorable, genVars, histVars>>

\* supervisor.c:95 else if (cb->entries[cb->rd].length >= current_best.length)
s_check_best ==
    /\ spc = "check_best"
    /\ GoS(IF entries[rd].length >= current_best.length
           THEN "advance" ELSE "copy")
    /\ UNCHANGED <<edges, parseVars, names, shmVars, semVars, quit, current_best,
                   colorable, genVars, histVars>>

\* supervisor.c:100-104 current_best = cb->entries[cb->rd] and the printing
s_copy ==
    /\ spc = "copy"
    /\ current_best' = entries[rd]
    /\ GoS("advance")
    /\ UNCHANGED <<edges, parseVars, names, shmVars, semVars, quit, colorable,
                   genVars, histVars>>

\* faulty variant: rd is not advanced
s_advance_stuck ==
    /\ spc = "advance"
    /\ GoS("post_free")
    /\ UNCHANGED <<edges, parseVars, names, shmVars, semVars, quit, current_best,
                   colorable, genVars, histVars>>

\* supervisor.c:96 and 106 cb->rd = (cb->rd + 1) % NUMBER_OF_ENTRIES
s_advance ==
    /\ spc = "advance"
    /\ rd' = (rd + 1) % NUMBER_OF_ENTRIES
    /\ GoS("post_free")
    /\ UNCHANGED <<edges, parseVars, names, signal, wr, entries, semVars, quit,
                   current_best, colorable, genVars, histVars>>

\* faulty variant: sem_post(free_sem) is left out
s_post_free_nopost ==
    /\ spc = "post_free"
    /\ inflight' = inflight - 1
    /\ GiveBack((rd + NUMBER_OF_ENTRIES - 1) % NUMBER_OF_ENTRIES)
    /\ GoS("loop")
    /\ UNCHANGED <<edges, parseVars, names, shmVars, semVars, quit,
                   current_best, colorable, genVars, callHist, logHist,
                   wheld, fheld>>

\* supervisor.c:97-98 and 107 sem_post(free_sem), back to the loop's top
s_post_free ==
    /\ spc = "post_free"
    /\ free_sem' = free_sem + 1
    /\ inflight' = inflight - 1
    /\ GiveBack((rd + NUMBER_OF_ENTRIES - 1) % NUMBER_OF_ENTRIES)
    /\ GoS("loop")
    /\ UNCHANGED <<edges, parseVars, names, shmVars, used_sem, write_sem, quit,
                   current_best, colorable, genVars, callHist, logHist,
                   wheld, fheld>>

\* supervisor.c:93-94 sem_post(free_sem) and break (rd is left as it is)
s_post_free_break ==
    /\ spc = "post_free_break"
    /\ free_sem' = free_sem + 1
    /\ inflight' = inflight - 1
    /\ GiveBack(rd % NUMBER_OF_ENTRIES)
    /\ GoS("terminate")
    /\ UNCHANGED <<edges, parseVars, names, shmVars, used_sem, write_sem, quit,
                   current_best, colorable, genVars, callHist, logHist,
                   wheld, fheld>>

\* supervisor.c:112 cb->signal = 1
s_terminate ==
    /\ spc = "terminate"
    /\ signal' = 1
    /\ GoS("shm_unlink")
    /\ UNCHANGED <<edges, parseVars, names, rd, wr, entries, semVars, quit,
                   current_best, colorable, genVars, histVars>>

\* supervisor.c:114-116 munmap, close and shm_unlink(SHM_NAME)
s_shm_unlink ==
    /\ spc = "shm_unlink"
    /\ names' = names \ {SHM_NAME}
    /\ GoS("close_sem")
    /\ UNCHANGED <<edges, parseVars, shmVars, semVars, quit, current_best, colorable,
                   genVars, histVars>>

\* supervisor.c:118-123 close_sem on the three semaphores, EXIT_SUCCESS
s_close_sem ==
    /\ spc = "close_sem"
    /\ names' = names \ SemNames
    /\ GoS("done")
    /\ UNCHANGED <<edges, parseVars, shmVars, semVars, quit, current_best, colorable,
                   genVars, histVars>>

\* supervisor.c:21-24 handle_signal; a sem_wait the supervisor sleeps in
\* returns -1 with EINTR and the loop continues at its top
\* (supervisor.c:82-84)
s_handle_signal ==
    /\ spc \notin {"done", "failed"}
    /\ quit' = [quit EXCEPT ![Sup] = TRUE]
    /\ GoS(IF spc = "blk_used" THEN "loop" ELSE spc)
    /\ UNCHANGED <<edges, parseVars, names, shmVars, semVars, current_best, colorable,
                   genVars, histVars>>

SupStep ==
    \/ s_loop \/ s_wait_used \/ s_check_zero \/ s_check_best \/ s_copy
    \/ s_advance \/ s_post_free \/ s_post_free_break \/ s_terminate
    \/ s_shm_unlink \/ s_close_sem

\* every step a process takes by itself
ProgStep == SupStep \/ \E g \in Gens : GenStep(g)

\* SIGINT or SIGTERM sent to a process
SignalStep == s_handle_signal \/ \E g \in Gens : g_handle_signal(g)

Next == ProgStep \/ SignalStep

Spec == Init /\ [][Next]_vars

(***************************************************************************)
(* Vocabulary of the properties                                            *)
(***************************************************************************)
\* generator g took the step
Acted(g) == gpc'[g] # gpc[g] \/ gi'[g] # gi[g] \/ quit'[g] # quit[g]

\* the supervisor is between its sem_wait(used_sem) and its last read of
\* the slot at rd
Reading(s) ==
    /\ spc \in {"check_zero", "check_best", "copy"}
    /\ rd % NUMBER_OF_ENTRIES = s

\* generator g is about to write, or has written part of, the slot at wr
Writing(g, s) ==
    /\ gpc[g] \in {"write_length", "write_pairs"}
    /\ wr = s

IsPrefix(a, b) ==
    /\ Len(a) <= Len(b)
    /\ \A k \in 1..Len(a) : a[k] = b[k]

(***************************************************************************)
(* C1: the supervisor consumes entries in exactly the order in which their *)
(* publishes completed: the k-th entry it reads is the one written by the  *)
(* k-th publish call that reached sem_post(used_sem).                      *)
(***************************************************************************)
C1_Fifo == IsPrefix(conLog, pubLog)

\* three entries, more than the buffer has slots, consumed in order
C1_Witness ==
    /\ Len(conLog) = MaxTrack
    /\ conLog = pubLog
    /\ MaxTrack > NUMBER_OF_ENTRIES

(***************************************************************************)
(* C2: at most NUMBER_OF_ENTRIES entries are published and not yet         *)
(* consumed; no generator writes into a slot whose entry has not been      *)
(* consumed; with NUMBER_OF_ENTRIES entries outstanding free_sem is 0 and   *)
(* no generator gets a free_sem permit.                                    *)
(***************************************************************************)
C2_Bounded ==
    /\ [](inflight <= NUMBER_OF_ENTRIES)
    /\ [](inflight = NUMBER_OF_ENTRIES => free_sem = 0)
    /\ [][\A s \in Slots : entries'[s] # entries[s] => ~unread[s]]_vars
    /\ [][\A g \in Gens : (~fheld[g] /\ fheld'[g])
                             => inflight < NUMBER_OF_ENTRIES]_vars

\* the buffer is full and a generator sleeps in sem_wait(free_sem)
C2_Witness ==
    /\ inflight = NUMBER_OF_ENTRIES
    /\ \E g \in Gens : gpc[g] = "blk_free"

(***************************************************************************)
(* C3: whenever the supervisor reads a slot, no generator is writing that  *)
(* slot, and the length and every pair it reads were written by one and    *)
(* the same publish call.                                                  *)
(***************************************************************************)
C3_NoMix ==
    \A s \in Slots :
        Reading(s) =>
            /\ \A g \in Gens : ~Writing(g, s)
            /\ unread[s]
            /\ lenBy[s] # -1
            /\ \A i \in Pairs :
                 i < entries[s].length => pairBy[s][i] = lenBy[s]

\* the supervisor reads a non-empty entry of a tracked publish while one
\* generator writes the other slot and the other generator sleeps on
\* write_sem
C3_Witness ==
    \E s \in Slots : \E g1, g2 \in Gens :
        /\ Reading(s) /\ entries[s].length > 0 /\ lenBy[s] > 0
        /\ gpc[g1] = "write_pairs" /\ wr # s
        /\ gpc[g2] = "blk_write"

(***************************************************************************)
(* C4: at most one generator holds write_sem; every write to a slot or to  *)
(* wr is a step of a generator holding write_sem and a free_sem permit;    *)
(* free_sem is acquired only while holding write_sem; used_sem is posted   *)
(* while write_sem is still held, and write_sem is released afterwards.    *)
(***************************************************************************)
C4_WriterLock ==
    /\ [](Cardinality({g \in Gens : wheld[g]}) <= 1)
    /\ [](\A g \in Gens : fheld[g] => wheld[g])
    /\ [][(wr' # wr \/ entries' # entries)
            => \E g \in Gens : Acted(g) /\ wheld[g] /\ fheld[g]]_vars
    /\ [][\A g \in Gens : (~fheld[g] /\ fheld'[g]) => wheld[g]]_vars
    /\ [][used_sem' > used_sem
            => \E g \in Gens : Acted(g) /\ wheld[g] /\ wheld'[g]]_vars
    /\ [][\A g \in Gens : (wheld[g] /\ ~wheld'[g]) => ~fheld[g]]_vars

\* one generator writes under the lock while the other sleeps on write_sem
C4_Witness ==
    \E g1, g2 \in Gens :
        /\ gpc[g1] = "write_pairs" /\ wheld[g1] /\ fheld[g1]
        /\ gpc[g2] = "blk_write"

(***************************************************************************)
(* C7: no step of a generator removes the name of the shared region or of  *)
(* a semaphore.                                                            *)
(***************************************************************************)
C7_NoGeneratorUnlink ==
    [][\A g \in Gens : Acted(g) => names' = names]_vars

(***************************************************************************)
(* Specifications for the liveness claims.                                 *)
(*                                                                         *)
(* LiveSpec: a 3-colorable graph, no signal is sent; every process keeps   *)
(* being scheduled (weak fairness of its steps) and a generator that       *)
(* randomizes again and again draws a conflict-free coloring at some point.*)
(*                                                                         *)
(* FairSpec: signals may be sent at any moment (no fairness on them) and   *)
(* every process that can take a step infinitely often does take one.      *)
(***************************************************************************)
Proper(es, col) == NumConflicts(es, col) = 0

g_randomize_proper(g) == g_randomize(g) /\ rconf'[g] = 0

InitLive == edges = K2 /\ InitProgram /\ InitHist(FALSE)

LiveSpec ==
    /\ InitLive
    /\ [][ProgStep]_vars
    /\ WF_vars(SupStep)
    /\ \A g \in Gens : WF_vars(GenStep(g)) /\ SF_vars(g_randomize_proper(g))

InitFair == edges = K2 /\ InitProgram /\ InitHist(FALSE)

FairSpec ==
    /\ InitFair
    /\ [][Next]_vars
    /\ SF_vars(SupStep)
    /\ \A g \in Gens : SF_vars(GenStep(g))

\* ColorSpec: the graphs whose colorings matter, no signal is sent
InitColor == edges \in {Triangle, Loops} /\ InitProgram /\ InitHist(TRUE)

ColorSpec == InitColor /\ [][ProgStep]_vars

(***************************************************************************)
(* C5: for a graph with a conflict-free coloring, with the supervisor and  *)
(* the generators running and fairly scheduled and colorings fairly drawn, *)
(* the supervisor eventually consumes an entry of length 0 and announces   *)
(* that the graph is 3-colorable.                                          *)
(***************************************************************************)
C5_EventuallyColorable ==
    (\E col \in Colorings(edges) : Proper(edges, col))
        ~> (colorable /\ announcedConf = 0)

\* the announcement was made and the supervisor has shut down
C5_Witness ==
    /\ edges = K2 /\ colorable /\ announcedConf = 0 /\ spc = "done"

(***************************************************************************)
(* C6 (as amended): the supervisor announces colorability only on an entry *)
(* that a generator wrote from a coloring with no conflicting edge, so for *)
(* a graph of which every coloring has a conflicting edge (Loops here; K4  *)
(* is such a graph) it never announces; the triangle is 3-colorable.       *)
(***************************************************************************)
K4HasNoProperColoring == \A col \in Colorings(K4) : ~Proper(K4, col)

TriangleHasProperColoring ==
    \E col \in Colorings(Triangle) : Proper(Triangle, col)

C6_AnnounceSound ==
    /\ colorable =>
         /\ announcedConf = 0
         /\ \E col \in Colorings(edges) : Proper(edges, col)
    /\ K4HasNoProperColoring
    /\ TriangleHasProperColoring

\* the triangle is announced 3-colorable while the other generator publishes
C6_Witness ==
    /\ edges = Triangle /\ colorable /\ announcedConf = 0
    /\ \E g \in Gens : gpc[g] = "write_pairs"

\* C6 as stated: ... and for the triangle 0-1 1-2 2-0 colorability is never
\* announced
C6_Original ==
    /\ colorable => announcedConf = 0
    /\ edges = Triangle => ~colorable

(***************************************************************************)
(* C8: a generator that has received SIGINT or SIGTERM inside its loop     *)
(* eventually exits with EXIT_SUCCESS.                                     *)
(***************************************************************************)
InLoop(g) ==
    gpc[g] \notin {"attach", "cleanup", "done", "failed"}

C8_GeneratorExitsAfterSignal ==
    \A g \in Gens : (quit[g] /\ InLoop(g)) ~> (gpc[g] = "done")

(***************************************************************************)
(* C9: a supervisor that has received SIGINT or SIGTERM inside its loop    *)
(* eventually sets the terminate flag, unlinks the region and the          *)
(* semaphores and exits with EXIT_SUCCESS.                                 *)
(***************************************************************************)
Listening ==
    spc \in {"loop", "wait_used", "blk_used", "check_zero", "check_best",
             "copy", "advance", "post_free"}

C9_SupervisorExitsAfterSignal ==
    (quit[Sup] /\ Listening) ~> (spc = "done" /\ signal = 1 /\ names = {})

(***************************************************************************)
(* C10: once the supervisor has set the terminate flag, every generator    *)
(* eventually stops.                                                       *)
(***************************************************************************)
C10_GeneratorsStopAfterTerminate ==
    (signal = 1) ~> (\A g \in Gens : gpc[g] \in {"done", "failed"})

(***************************************************************************)
(* C11: when one generator has stopped, a generator waiting for write_sem  *)
(* can still get it (the supervisor still listening and nobody having      *)
(* cancelled the waiting generator): write_sem is free or is held by a     *)
(* generator that is still running and will post it.                       *)
(***************************************************************************)
Stopped(g) == gpc[g] \in {"done", "failed"}

C11_OthersCanPublish ==
    \A g \in Gens :
        (gpc[g] = "blk_write" /\ ~quit[g] /\ ~quit[Sup] /\ signal = 0)
            => \/ write_sem > 0
               \/ \E h \in Gens : wheld[h] /\ ~Stopped(h)

(***************************************************************************)
(* C12: a generator whose coloring has more than MAXIMUM_SOLUTION_LENGTH   *)
(* conflicting edges holds no semaphore and is at no step that writes the  *)
(* slot, advances wr or publishes.                                         *)
(***************************************************************************)
C12_OversizeDiscarded ==
    \A g \in Gens :
        rconf[g] > MAXIMUM_SOLUTION_LENGTH =>
            /\ ~wheld[g] /\ ~fheld[g]
            /\ gpc[g] \notin {"write_length", "write_pairs", "post_used",
                              "post_write"}

(***************************************************************************)
(* C13: no step makes current_best.length larger.                          *)
(***************************************************************************)
C13_BestNonIncreasing ==
    [][current_best'.length <= current_best.length]_vars

\* with a best of 1 edge, an entry of 2 edges was consumed and passed over
C13_Witness ==
    /\ spc = "advance"
    /\ current_best.length = 1
    /\ entries[rd].length = 2

(***************************************************************************)
(* C14: every entry the supervisor reads has length at most                *)
(* MAXIMUM_SOLUTION_LENGTH.                                                *)
(***************************************************************************)
C14_ConsumedLengthBounded ==
    \A s \in Slots :
        Reading(s) => entries[s].length <= MAXIMUM_SOLUTION_LENGTH

\* the supervisor reads a full entry that came from a coloring with more
\* conflicting edges than a slot holds
C14_Witness ==
    \E s \in Slots :
        /\ Reading(s)
        /\ entries[s].length = MAXIMUM_SOLUTION_LENGTH
        /\ confBy[s] > MAXIMUM_SOLUTION_LENGTH

(***************************************************************************)
(* C15: the k-th consume reads slot (k - 1) mod NUMBER_OF_ENTRIES.         *)
(***************************************************************************)
C15_CyclicReads ==
    \A k \in 1..Len(slotLog) : slotLog[k] = (k - 1) % NUMBER_OF_ENTRIES

\* more consumes than the buffer has slots: the read index has wrapped
C15_Witness ==
    /\ Len(slotLog) = MaxTrack
    /\ MaxTrack > NUMBER_OF_ENTRIES
    /\ slotLog[MaxTrack] = (MaxTrack - 1) % NUMBER_OF_ENTRIES
    /\ spc = "post_free"

(***************************************************************************)
(* C16: started on K4 (0-1 0-2 0-3 1-2 1-3 2-3), with every process fairly *)
(* scheduled and no signal sent, the supervisor eventually exits, without   *)
(* having announced colorability and with a best entry of 1 edge.          *)
(*                                                                         *)
(* K4Spec: K4 (and K2, on which the supervisor does leave its loop); the   *)
(* supervisor and one generator run, the other generators are not started; *)
(* no signal is sent; of the colorings rand() can give, the generator      *)
(* draws those with the fewest conflicting edges (at most 1); every        *)
(* process is fairly scheduled.                                            *)
(***************************************************************************)
InitK4 == edges \in {K4, K2} /\ InitProgram /\ InitHist(FALSE)

g_randomize_least(g) == g_randomize(g) /\ rconf'[g] <= 1

K4Gen ==
    \/ g_attach(1) \/ g_loop(1)
    \/ g_wait_write(1) \/ g_wait_free(1) \/ g_randomize_least(1)
    \/ g_write_length(1) \/ g_write_pairs(1) \/ g_advance(1)
    \/ g_post_used(1) \/ g_post_write(1) \/ g_cleanup(1)

K4Step == SupStep \/ K4Gen

K4Spec ==
    /\ InitK4
    /\ [][K4Step]_vars
    /\ WF_vars(SupStep)
    /\ WF_vars(K4Gen)
    /\ SF_vars(g_randomize_proper(1))

C16_K4SupervisorStops ==
    (edges = K4) ~> (spc = "done" /\ ~colorable /\ current_best.length = 1)

(***************************************************************************)
(* C17: a generator that holds write_sem is inside the publish steps: a    *)
(* wait on free_sem that a signal interrupts is issued again with          *)
(* write_sem still held, the publish is not abandoned.                     *)
(***************************************************************************)
C17_InterruptedWaitRetried ==
    \A g \in Gens :
        wheld[g] => gpc[g] \in {"wait_free", "blk_free", "randomize",
                                "write_length", "write_pairs", "post_used",
                                "post_write"}

(***************************************************************************)
(* C18: when no publish and no consume is part-way through, used_sem is    *)
(* the number of published and unconsumed entries, which is the distance   *)
(* from rd to wr modulo NUMBER_OF_ENTRIES, and free_sem is                 *)
(* NUMBER_OF_ENTRIES minus that number.                                    *)
(***************************************************************************)
Quiescent ==
    /\ \A g \in Gens : gpc[g] \in {"attach", "loop", "wait_write",
                                     "blk_write", "cleanup", "done", "failed"}
    /\ spc \in {"loop", "wait_used", "blk_used", "terminate", "shm_unlink",
                "close_sem", "done"}

C18_CountsMatchOccupancy ==
    Quiescent =>
        /\ used_sem = inflight
        /\ used_sem % NUMBER_OF_ENTRIES
             = (wr - rd + NUMBER_OF_ENTRIES) % NUMBER_OF_ENTRIES
        /\ free_sem = NUMBER_OF_ENTRIES - used_sem

(***************************************************************************)
(* C19: after the supervisor has consumed an entry of length 0 and left    *)
(* its loop, rd is one past the slot that entry was read from.             *)
(***************************************************************************)
C19_ZeroConsumeAdvances ==
    (/\ colorable
     /\ spc \in {"terminate", "shm_unlink", "close_sem", "done"}
     /\ Len(slotLog) \in 1..(MaxTrack - 1))
        => rd = (slotLog[Len(slotLog)] + 1) % NUMBER_OF_ENTRIES

(***************************************************************************)
(* C20: outside the comparison and the copy, current_best is the first     *)
(* consumed entry of the least non-zero length consumed so far, and        *)
(* current_best changes only in the copy of an entry shorter than it.      *)
(***************************************************************************)
C20_BestIsFirstMinimum ==
    /\ [](spc \notin {"check_best", "copy"} => current_best = ghostBest)
    /\ [][current_best' # current_best
            => (spc = "copy" /\ entries[rd].length < current_best.length)]_vars

\* an entry as long as the best one, with another edge in it, was consumed
\* and passed over
C20_Witness ==
    /\ spc = "advance"
    /\ entries[rd].length = current_best.length
    /\ entries[rd].from_vertices[0] # current_best.from_vertices[0]
    /\ current_best = ghostBest

(***************************************************************************)
(* C21 (as amended): the discard path is never taken. A generator that has *)
(* drawn its coloring always goes on to write the slot, with the first     *)
(* MAXIMUM_SOLUTION_LENGTH conflicting edges when there are more, and a     *)
(* generator at the top of its loop holds no free_sem permit; with no      *)
(* signal sent it does not hold write_sem either.                          *)
(***************************************************************************)
MinOf(a, b) == IF a < b THEN a ELSE b

C22_EntryIsFullSnapshot ==
    \A s \in Slots : unread[s] => entries[s].length = confBy[s]

(***************************************************************************)
(* C24: a generator that has left its loop holds neither write_sem nor a   *)
(* free_sem permit.                                                        *)
(***************************************************************************)
C24_ExitsWithoutPermits ==
    \A g \in Gens :
        gpc[g] \in {"cleanup", "done"} => (~wheld[g] /\ ~fheld[g])

(***************************************************************************)
(* C23: a step of a generator leaves the terminate flag and rd as they     *)
(* are, a step of the supervisor leaves wr and the slots as they are, and  *)
(* the terminate flag changes only in a step of the supervisor, from 0 to  *)
(* 1.                                                                      *)
(***************************************************************************)
SupActed == spc' # spc \/ quit'[Sup] # quit[Sup]

C23_SingleWriters ==
    [][/\ ((\E g \in Gens : Acted(g)) => (signal' = signal /\ rd' = rd))
       /\ (SupActed => (wr' = wr /\ entries' = entries))
       /\ (signal' # signal => (SupActed /\ signal = 0 /\ signal' = 1))]_vars

\* the flag is set, both indices have moved and a generator is writing
C23_Witness ==
    /\ signal = 1
    /\ rd = 1
    /\ wr = 1
    /\ \E g \in Gens : gpc[g] = "write_pairs" /\ gi[g] > 0

(***************************************************************************)
(* C25: while the supervisor is in its loop and no process has been        *)
(* signalled or has failed, it is never the case that the supervisor       *)
(* sleeps in sem_wait(used_sem) and every generator sleeps in a sem_wait   *)
(* with no permit available to any of them.                                *)
(***************************************************************************)
Blocked(g) ==
    \/ gpc[g] = "blk_write" /\ write_sem = 0
    \/ gpc[g] = "blk_free" /\ free_sem = 0

C25_NoDeadlock ==
    (/\ Listening
     /\ \A p \in Procs : ~quit[p]
     /\ \A g \in Gens : gpc[g] # "failed")
        => ~(/\ spc = "blk_used"
             /\ used_sem = 0
             /\ \A g \in Gens : Blocked(g))

\* the supervisor and all generators but one sleep, and the last generator
\* holds the permit that wakes the supervisor
C25_Witness ==
    /\ \A p \in Procs : ~quit[p]
    /\ spc = "blk_used"
    /\ used_sem = 0
    /\ write_sem = 0
    /\ \E g \in Gens :
          /\ gpc[g] = "post_used"
          /\ \A h \in Gens \ {g} : Blocked(h)

(***************************************************************************)
(* C26: free_sem + used_sem + the permits generators hold between          *)
(* sem_wait(free_sem) and sem_post(used_sem) + the permit the supervisor   *)
(* holds between sem_wait(used_sem) and sem_post(free_sem) is              *)
(* NUMBER_OF_ENTRIES, and write_sem is 0 or 1.                             *)
(***************************************************************************)
HeldByGenerators == Cardinality({g \in Gens : fheld[g]})

HeldBySupervisor ==
    IF spc \in {"check_zero", "check_best", "copy", "advance", "post_free",
                "post_free_break"}
    THEN 1 ELSE 0

C26_PermitsConserved ==
    /\ free_sem + used_sem + HeldByGenerators + HeldBySupervisor
         = NUMBER_OF_ENTRIES
    /\ write_sem \in {0, 1}

\* every permit is in a process's hands: none is left in either semaphore
C26_Witness ==
    /\ free_sem = 0
    /\ used_sem = 0
    /\ HeldByGenerators = 1
    /\ spc = "copy"
    /\ write_sem = 0

(***************************************************************************)
(* C28: rd and wr are always in 0..NUMBER_OF_ENTRIES-1, and a step that    *)
(* changes one of them adds 1 to it modulo NUMBER_OF_ENTRIES.              *)
(***************************************************************************)
C28_IndicesInRange ==
    /\ [](rd \in Slots /\ wr \in Slots)
    /\ [][/\ (rd' # rd => rd' = (rd + 1) % NUMBER_OF_ENTRIES)
           /\ (wr' # wr => wr' = (wr + 1) % NUMBER_OF_ENTRIES)]_vars

\* both indices have gone round the buffer once
C28_Witness ==
    /\ wr = 0
    /\ rd = 0
    /\ Len(slotLog) = NUMBER_OF_ENTRIES
    /\ spc = "post_free"

(***************************************************************************)
(* C29: a generator goes from attaching into its loop exactly when the     *)
(* region and the three semaphores exist; otherwise it exits with failure, *)
(* and in neither case does its attach step add a name.                    *)
(***************************************************************************)
C29_AttachNeedsAllObjects ==
    [][\A g \in Gens :
         (gpc[g] = "attach" /\ gpc'[g] # "attach") =>
             /\ gpc'[g] \in {"loop", "failed"}
             /\ (gpc'[g] = "loop"
                   <=> ({SHM_NAME} \cup SemNames) \subseteq names)
             /\ names' \subseteq names]_vars

\* a generator has failed to attach while the semaphores were still there
\* and another one has attached before
C29_Witness ==
    \E g, h \in Gens :
        /\ gpc[g] = "failed"
        /\ SemNames \subseteq names
        /\ SHM_NAME \notin names
        /\ gpc[h] \in {"blk_write", "blk_free", "cleanup", "done"}

(***************************************************************************)
(* C27: once signal is 1 a generator completes at most one more publish,   *)
(* and a generator whose loop test reads signal = 1 goes to its cleanup.   *)
(***************************************************************************)
C27_AtMostOnePublishAfterFlag ==
    /\ [](\A g \in Gens : pubAfter[g] <= 1)
    /\ [][\A g \in Gens :
            (gpc[g] = "loop" /\ signal = 1 /\ gpc'[g] # "loop")
                => gpc'[g] = "cleanup"]_vars

\* a generator that was past its loop test when the flag was set has
\* completed that publish, has seen the flag and has exited
C27_Witness ==
    \E g \in Gens : pubAfter[g] = 1 /\ gpc[g] = "done" /\ ~quit[g]

(***************************************************************************)
(* Start-up of the supervisor (supervisor.c:52-79), from a system in which *)
(* any of the four names may be left over from an earlier run. A region    *)
(* that is left over keeps its contents: ftruncate to the same size does   *)
(* not clear it and the supervisor never assigns signal, rd or wr.         *)
(***************************************************************************)
AllNames == {SHM_NAME} \cup SemNames

InitCreate ==
    /\ edges = K2
    /\ preexisting \in SUBSET AllNames
    /\ names = preexisting
    /\ created = {}
    /\ signal \in (IF SHM_NAME \in preexisting THEN {0, 1} ELSE {0})
    /\ rd \in (IF SHM_NAME \in preexisting THEN Slots ELSE {0})
    /\ wr \in (IF SHM_NAME \in preexisting THEN Slots ELSE {0})
    /\ entries = [s \in Slots |-> ZeroEntry]
    /\ free_sem = 0 /\ used_sem = 0 /\ write_sem = 0
    /\ quit = [p \in Procs |-> FALSE]
    /\ spc = "shm_open"
    /\ current_best = ZeroEntry
    /\ colorable = FALSE
    /\ gpc = [g \in Gens |-> "attach"]
    /\ removal_candidates = [g \in Gens |-> <<>>]
    /\ gi = [g \in Gens |-> 0]
    /\ argv = ArgvOf(edges)
    /\ vertices = parse_argv(argv).vertices
    /\ InitHist(TRUE)

\* supervisor.c:52-55 shm_open(SHM_NAME, O_RDWR | O_CREAT, 0600): opens the
\* region, creating it when the name is not linked, or fails and exits
\* through print_errno_msg (util.c:19-26)
s_shm_open ==
    /\ spc = "shm_open"
    /\ \/ /\ names' = names \cup {SHM_NAME}
          /\ created' = created \cup ({SHM_NAME} \ names)
          /\ GoS("mmap")
       \/ /\ GoS("failed")
          /\ UNCHANGED <<names, created>>
    /\ UNCHANGED <<edges, parseVars, shmVars, semVars, quit, current_best, colorable,
                   genVars, slotHist, callHist, heldHist, pubLog, conLog,
                   announcedConf, slotLog, ghostBest, pubAfter, preexisting>>

\* supervisor.c:57-65 ftruncate and mmap: either call can fail, and the
\* supervisor then exits through print_errno_msg with the region linked
s_mmap ==
    /\ spc = "mmap"
    /\ GoS("sem_open") \/ GoS("failed")
    /\ UNCHANGED <<edges, parseVars, names, shmVars, semVars, quit, current_best,
                   colorable, genVars, histVars>>

\* supervisor.c:67-79 the three sem_open(name, O_CREAT | O_EXCL, 0600, v)
\* calls are all made; each fails when its name is linked. When one has
\* failed, close_sem (util.c:28-31) unlinks all three names and the
\* supervisor exits through print_errno_msg; otherwise current_best.length
\* is set and the loop is entered
s_sem_open ==
    /\ spc = "sem_open"
    /\ created' = created \cup (SemNames \ names)
    /\ IF SemNames \cap names = {}
       THEN /\ names' = names \cup SemNames
            /\ free_sem' = NUMBER_OF_ENTRIES
            /\ used_sem' = 0
            /\ write_sem' = 1
            /\ current_best' = [current_best EXCEPT !.length = INT_MAX]
            /\ GoS("loop")
       ELSE /\ names' = names \ SemNames
            /\ GoS("failed")
            /\ UNCHANGED <<semVars, current_best>>
    /\ UNCHANGED <<edges, parseVars, shmVars, quit, colorable, genVars, slotHist,
                   callHist, heldHist, pubLog, conLog, announcedConf,
                   slotLog, ghostBest, pubAfter, preexisting>>

CreateStep == s_shm_open \/ s_mmap \/ s_sem_open

CreateNext == CreateStep \/ s_handle_signal

CreateSpec == InitCreate /\ [][CreateNext]_vars

(***************************************************************************)
(* C30: when the supervisor has failed during start-up, no name it created *)
(* in this run is still linked and every name that was linked before it    *)
(* started still is.                                                       *)
(***************************************************************************)
C30_FailedCreateCleansUp ==
    spc = "failed" => (created \cap names = {} /\ preexisting \subseteq names)

(***************************************************************************)
(* Start-up of a generator (generator.c:108-151) on any command line of    *)
(* up to MaxArgs arguments, the supervisor being ready.                    *)
(***************************************************************************)
Toks == UNION {[1..n -> Chars] : n \in 0..MaxTokLen}
Argvs == UNION {[1..n -> Toks] : n \in 0..MaxArgs}

InitParse ==
    /\ argv \in Argvs
    /\ edges = <<>>
    /\ vertices = <<>>
    /\ names = AllNames
    /\ preexisting = {}
    /\ created = AllNames
    /\ signal = 0 /\ rd = 0 /\ wr = 0
    /\ entries = [s \in Slots |-> ZeroEntry]
    /\ free_sem = NUMBER_OF_ENTRIES
    /\ used_sem = 0
    /\ write_sem = 1
    /\ quit = [p \in Procs |-> FALSE]
    /\ spc = "loop"
    /\ current_best = [ZeroEntry EXCEPT !.length = INT_MAX]
    /\ colorable = FALSE
    /\ gpc = [g \in Gens |-> "main"]
    /\ removal_candidates = [g \in Gens |-> <<>>]
    /\ gi = [g \in Gens |-> 0]
    /\ InitHist(TRUE)

\* generator.c:108-129 the argc test and parse_argv; usage() exits with
\* EXIT_FAILURE (generator.c:100-106)
g_main(g) ==
    /\ gpc[g] = "main"
    /\ LET r == parse_argv(argv) IN
         IF Len(argv) < 1 \/ r.failed
         THEN GoG(g, "failed") /\ UNCHANGED <<edges, vertices>>
         ELSE /\ GoG(g, "attach")
              /\ edges' = EdgeKeys(r)
              /\ vertices' = r.vertices
    /\ UNCHANGED <<argv, names, shmVars, semVars, quit, supVars,
                   removal_candidates, gi, histVars>>

ParseNext == \E g \in Gens : g_main(g) \/ g_attach(g)

ParseSpec == InitParse /\ [][ParseNext]_vars

(***************************************************************************)
(* C31: a generator started with no edge argument, or with an argument     *)
(* that is not <key>-<key> with keys written as integers, exits with       *)
(* failure without attaching: it never gets past its start-up and the      *)
(* region, the names and the semaphore values stay as they were.           *)
(***************************************************************************)
IsKey(s) == Len(s) >= 1 /\ \A i \in 1..Len(s) : IsDigit(s[i])

IsSignedKey(s) ==
    \/ IsKey(s)
    \/ Len(s) >= 2 /\ s[1] = "-" /\ IsKey(SubSeq(s, 2, Len(s)))

WellFormed(arg) ==
    \E k \in 1..Len(arg) :
        /\ arg[k] = "-"
        /\ IsSignedKey(SubSeq(arg, 1, k - 1))
        /\ IsSignedKey(SubSeq(arg, k + 1, Len(arg)))

Malformed(av) == Len(av) = 0 \/ \E i \in 1..Len(av) : ~WellFormed(av[i])

C31_MalformedNeverAttaches ==
    Malformed(argv) =>
        /\ \A g \in Gens : gpc[g] \in {"main", "failed"}
        /\ names = AllNames
        /\ free_sem = NUMBER_OF_ENTRIES /\ used_sem = 0 /\ write_sem = 1
        /\ signal = 0 /\ rd = 0 /\ wr = 0

(***************************************************************************)
(* C32: in the graph a generator has built, no two vertices have the same  *)
(* key and no two edges have the same unordered pair of endpoints, and     *)
(* every argument's edge is stored.                                        *)
(***************************************************************************)
SameEdge(e, f) == e = f \/ e = <<f[2], f[1]>>

ArgEdge(arg) ==
    LET p == strtok(arg) IN <<strtol(p[1]).value, strtol(p[2]).value>>

C32_GraphDeduplicated ==
    (\E g \in Gens : gpc[g] \notin {"main", "failed"}) =>
        /\ \A i, j \in 1..Len(vertices) : vertices[i] = vertices[j] => i = j
        /\ \A i, j \in 1..Len(edges) : SameEdge(edges[i], edges[j]) => i = j
        /\ \A i \in 1..Len(argv) :
              \E k \in 1..Len(edges) : SameEdge(edges[k], ArgEdge(argv[i]))

\* the command line "0-1 1-0" has been parsed into the single edge 0-1
C32_Witness ==
    /\ argv = << <<"0", "-", "1">>, <<"1", "-", "0">> >>
    /\ edges = << <<0, 1>> >>
    /\ vertices = <<0, 1>>
    /\ \E g \in Gens : gpc[g] = "loop"

====
